---- MODULE Spec2Model ----
(***************************************************************************)
(* rmesg: the incremental polling iterator over the kernel log buffer      *)
(* (src/src/lib.rs).  RMesgLinesIterator::next is a blocking loop: check   *)
(* the time elapsed since last_poll, poll the snapshot source when due,    *)
(* sleep when nothing is queued, else hand out the first queued line.      *)
(* poll() takes a snapshot, scans its lines backward down to the anchor    *)
(* (lastline) and queues what follows the anchor.                          *)
(*                                                                         *)
(* Text is a sequence of one-character strings; a line is the text between *)
(* line breaks.  Option<T> is <<>> (None) or <<v>> (Some(v)).  Time is     *)
(* counted in units of 200 ms, the margin of lib.rs:125.                   *)
(***************************************************************************)
EXTENDS Integers, Sequences, FiniteSets

VARIABLES
    \* ---- RMesgLinesIterator (lib.rs:28-35)
    clear,            \* bool
    lines,            \* Vec<String>: lines extracted, not yet handed out
    poll_interval,    \* Duration
    sleep_interval,   \* Duration
    last_poll,        \* SystemTime
    lastline,         \* Option<String>: the anchor
    \* ---- control
    pc,               \* position of the caller / of next()
    ret,              \* what the last finished call returned
    \* ---- locals of the poll() of the current cycle
    rawlogs,          \* Option<text>: the snapshot rmesg() returned
    linesadded,       \* the usize poll() returned
    pre_lastline,     \* lastline as it was when poll() was entered
    wake,             \* Option: what the clock read when the sleep ended
    \* ---- environment
    now,              \* SystemTime::now()
    mono,             \* real time passed since the start
    klog,             \* every line the kernel ever logged, in order
    kstart,           \* index in klog of the oldest line still buffered
    env_events,       \* how many times the kernel or the clock has acted
    \* ---- history
    ctor_args,        \* <<clear, poll_interval, now>> given to rmesg_lines_iter
    pendingIds,       \* klog index of each element of lines
    delivered,        \* the lines next() returned, in order
    deliveredIds,     \* their klog indices
    polledAll,        \* concatenation of what every poll() queued
    prev_snap,        \* lines of the most recent snapshot
    chain_ok,         \* every snapshot so far extended the one before it
    nodup_ok,         \* ... and appended no line equal to the anchor
    unique_ok,        \* ... and held the anchor exactly once
    read_mono,        \* Option: real time of the latest invocation of rmesg()
    read_at,          \* Option: what the clock read at that invocation
    last_gap,         \* Option: real time between the latest two invocations
    failed,           \* some pull has returned None
    after_fail        \* rmesg() was invoked, or a line returned, after that

vars == <<clear, lines, poll_interval, sleep_interval, last_poll, lastline,
          pc, ret, rawlogs, linesadded, pre_lastline, wake, now, mono, klog, kstart, env_events,
          ctor_args, pendingIds, delivered, deliveredIds, polledAll,
          prev_snap, chain_ok, nodup_ok, unique_ok, read_mono, read_at,
          last_gap, failed, after_fail>>

iter == <<clear, lines, poll_interval, sleep_interval, last_poll, lastline>>
locals == <<rawlogs, linesadded, pre_lastline>>
kernel == <<klog, kstart>>
snaphist == <<polledAll, prev_snap, chain_ok, nodup_ok, unique_ok>>
readhist == <<read_mono, read_at, last_gap, after_fail>>
clock == <<now, mono>>

----------------------------------------------------------------------------
(* Bounds of the model *)

\* events of the environment (a line logged, a wrap, a tick, a clock set)
\* in one run
MaxEnv == 3
\* events of the environment in a run checked for progress
LiveEnv == 2
\* real time a run lasts, in units of 200 ms
MaxTime == 3
\* Duration::MAX, scaled down to the model's units
DurationMax == 4
\* the earliest representable SystemTime is -MaxPast
MaxPast == 3

TimeMin == 0 - MaxPast

\* Duration::from_millis(200), one unit
Margin == 1

\* the texts a logged line may have (no line break inside a line)
LineTexts == { <<"a">>, <<"b">> }

None == <<>>
Some(v) == <<v>>

----------------------------------------------------------------------------
(* std: Duration, SystemTime, str::lines, Vec *)

\* Duration::checked_add: None when the sum exceeds Duration::MAX
checked_add(d1, d2) == IF d1 + d2 > DurationMax THEN None ELSE Some(d1 + d2)

\* SystemTime::checked_sub: None when the result is not representable
checked_sub(t, d) == IF t - d < TimeMin THEN None ELSE Some(t - d)

\* SystemTime::elapsed: Err (None here) when the clock reads earlier than t
elapsed(t) == IF now < t THEN None ELSE Some(now - t)

Reverse(s) == [i \in 1..Len(s) |-> s[Len(s) + 1 - i]]

\* a line's trailing carriage return belongs to its line break
StripCR(l) ==
    IF Len(l) > 0 /\ l[Len(l)] = "\r" THEN SubSeq(l, 1, Len(l) - 1) ELSE l

RECURSIVE LinesFrom(_, _, _, _)
LinesFrom(t, i, cur, acc) ==
    IF i > Len(t)
    THEN IF cur = <<>> THEN acc ELSE Append(acc, cur)
    ELSE IF t[i] = "\n"
         THEN LinesFrom(t, i + 1, <<>>, Append(acc, StripCR(cur)))
         ELSE LinesFrom(t, i + 1, Append(cur, t[i]), acc)

\* str::lines: split at line breaks; the final line break is optional
Lines(t) == LinesFrom(t, 1, <<>>, <<>>)

\* a remove(0) that leaves the element in the vector
Remove0_Keep(v) == [value |-> Head(v), rest |-> v]

\* a pop() in place of remove(0): the last element
Remove0_Pop(v) == [value |-> v[Len(v)], rest |-> SubSeq(v, 1, Len(v) - 1)]

\* Vec::remove(0): the first element, and the vector without it
Remove0(v) == [value |-> Head(v), rest |-> Tail(v)]

----------------------------------------------------------------------------
(* The snapshot source *)

RECURSIVE Join(_)
Join(ls) == IF ls = <<>> THEN <<>> ELSE Head(ls) \o <<"\n">> \o Join(Tail(ls))

\* the lines the kernel buffer holds
KBuf == SubSeq(klog, kstart, Len(klog))
KBufIds == [i \in 1..(Len(klog) + 1 - kstart) |-> kstart + i - 1]

\* rmesg(clear): the buffer's full text, every line ended by a line break
rmesg_text == Join(KBuf)
\* ... and the buffer start after the read: a clearing read empties it
rmesg_kstart(c) == IF c THEN Len(klog) + 1 ELSE kstart

----------------------------------------------------------------------------
(* RMesgLinesIterator::poll, lib.rs:83-118 *)

\* lib.rs:92-93: take_while over the reversed lines
RECURSIVE TakeWhileNotLast(_, _)
TakeWhileNotLast(rev, maybe_lastline) ==
    IF rev = <<>> THEN <<>>
    ELSE IF maybe_lastline = None \/ Head(rev) # maybe_lastline[1]
         THEN <<Head(rev)>> \o TakeWhileNotLast(Tail(rev), maybe_lastline)
         ELSE <<>>

\* the collected lines left in scan order (lib.rs:102 dropped)
NewLines_NoReverse(raw, maybe_lastline) ==
    TakeWhileNotLast(Reverse(Lines(raw)), maybe_lastline)

\* a scan that gives up one line early: the snapshot's first line is never new
NewLines_SkipFirst(raw, maybe_lastline) ==
    LET all == Lines(raw)
        new == Reverse(TakeWhileNotLast(Reverse(all), maybe_lastline))
    IN  IF new # <<>> /\ Len(new) = Len(all) THEN Tail(new) ELSE new

\* a forward scan: the lines after the FIRST lastline
RECURSIVE AfterFirst(_, _)
AfterFirst(ls, l) ==
    IF ls = <<>> THEN <<>>
    ELSE IF Head(ls) = l THEN Tail(ls) ELSE AfterFirst(Tail(ls), l)
NewLines_FromFirst(raw, maybe_lastline) ==
    LET all == Lines(raw)
    IN  IF maybe_lastline = None \/ \A i \in 1..Len(all) : all[i] # maybe_lastline[1]
        THEN all
        ELSE AfterFirst(all, maybe_lastline[1])

\* lib.rs:90-102: the lines after the last lastline, in the original order
NewLines(raw, maybe_lastline) ==
    Reverse(TakeWhileNotLast(Reverse(Lines(raw)), maybe_lastline))

\* an anchor taken from the first new line instead of the last
PollResult_FirstAnchor(raw, ls, ll) ==
    LET newlines == Reverse(TakeWhileNotLast(Reverse(Lines(raw)), ll))
        k == Len(newlines)
    IN  [lines      |-> ls \o newlines,
         linesadded |-> k,
         lastline   |-> IF k > 0 THEN <<newlines[1]>> ELSE ll]

\* an anchor moved without the linesadded > 0 test of lib.rs:112
PollResult_AlwaysAnchor(raw, ls, ll) ==
    LET newlines == Reverse(TakeWhileNotLast(Reverse(Lines(raw)), ll))
        k == Len(newlines)
    IN  [lines      |-> ls \o newlines,
         linesadded |-> k,
         lastline   |-> IF k > 0 THEN <<newlines[k]>> ELSE << <<>> >>]

\* a poll that counts the new lines and does not queue them
PollResult_NoPush(raw, ls, ll) ==
    LET newlines == Reverse(TakeWhileNotLast(Reverse(Lines(raw)), ll))
        k == Len(newlines)
    IN  [lines      |-> ls,
         linesadded |-> k,
         lastline   |-> IF k > 0 THEN <<newlines[k]>> ELSE ll]

\* lib.rs:104-117: queue them, count them, move the anchor
PollResult(raw, ls, ll) ==
    LET newlines == NewLines(raw, ll)
        k == Len(newlines)
    IN  [lines      |-> ls \o newlines,
         linesadded |-> k,
         lastline   |-> IF k > 0 THEN Some(newlines[k]) ELSE ll]

\* lib.rs:58: a poll is due
Due(e) == e >= poll_interval

----------------------------------------------------------------------------
(* History helpers *)

IsPrefix(s, t) == Len(s) <= Len(t) /\ SubSeq(t, 1, Len(s)) = s
Count(s, x) == Cardinality({i \in 1..Len(s) : s[i] = x})
LastN(s, n) == SubSeq(s, Len(s) - n + 1, Len(s))

----------------------------------------------------------------------------
\* the state before construction, e events of the environment counted as spent
InitWith(e) ==
    /\ clear = FALSE
    /\ lines = <<>>
    /\ poll_interval = 0
    /\ sleep_interval = 0
    /\ last_poll = 0
    /\ lastline = None
    /\ pc = "new"
    /\ ret = <<>>
    /\ rawlogs = None
    /\ linesadded = 0
    /\ pre_lastline = None
    /\ wake = None
    /\ now = 0
    /\ mono = 0
    /\ klog = <<>>
    /\ kstart = 1
    /\ env_events = e
    /\ ctor_args = <<>>
    /\ pendingIds = <<>>
    /\ delivered = <<>>
    /\ deliveredIds = <<>>
    /\ polledAll = <<>>
    /\ prev_snap = <<>>
    /\ chain_ok = TRUE
    /\ nodup_ok = TRUE
    /\ unique_ok = TRUE
    /\ read_mono = None
    /\ read_at = None
    /\ last_gap = None
    /\ failed = FALSE
    /\ after_fail = FALSE

Init == InitWith(0)


----------------------------------------------------------------------------
(* rmesg_lines_iter, lib.rs:121-145 *)

\* a constructor that forgets the margin
NewIterator_NoMargin(c, p, t) ==
    LET lp == IF t - p < (0 - MaxPast) THEN <<>> ELSE <<t - p>>
    IN  IF p > DurationMax \/ lp = <<>> THEN <<>>
        ELSE <<[lines |-> <<>>, poll_interval |-> p, sleep_interval |-> p,
                last_poll |-> lp[1], clear |-> c, lastline |-> <<>>]>>

\* a constructor that starts last_poll at the time of construction
NewIterator_LastPollNow(c, p, t) ==
    IF p + Margin > DurationMax \/ t - (p + Margin) < (0 - MaxPast) THEN <<>>
    ELSE <<[lines |-> <<>>, poll_interval |-> p, sleep_interval |-> p + Margin,
            last_poll |-> t, clear |-> c, lastline |-> <<>>]>>

\* None when the time arithmetic fails, else the fields of the new iterator
NewIterator(c, p, t) ==
    LET si == checked_add(p, Margin)
    IN  IF si = None THEN None
        ELSE LET lp == checked_sub(t, si[1])
             IN  IF lp = None THEN None
                 ELSE Some([lines          |-> <<>>,
                            poll_interval  |-> p,
                            sleep_interval |-> si[1],
                            last_poll      |-> lp[1],
                            clear          |-> c,
                            lastline       |-> None])

rmesg_lines_iter(c, p) ==
    /\ pc = "new"
    /\ ctor_args' = <<c, p, now>>
    /\ LET it == NewIterator(c, p, now)
       IN  IF it = None
           THEN /\ pc' = "noiter"
                /\ ret' = <<"Err", "UnableToAddDurationToSystemTime">>
                /\ UNCHANGED iter
           ELSE /\ pc' = "idle"
                /\ ret' = <<"Ok">>
                /\ lines' = it[1].lines
                /\ poll_interval' = it[1].poll_interval
                /\ sleep_interval' = it[1].sleep_interval
                /\ last_poll' = it[1].last_poll
                /\ clear' = it[1].clear
                /\ lastline' = it[1].lastline
    /\ UNCHANGED <<env_events, locals, wake, clock, kernel, pendingIds, delivered,
                   deliveredIds, snaphist, readhist, failed>>

----------------------------------------------------------------------------
(* RMesgLinesIterator::next, lib.rs:43-79: one cycle of the loop is an     *)
(* elapsed-time check with the poll it leads to, then a sleep or a return. *)

\* the caller calls next(), or the loop comes round after a sleep
AtLoopTop == pc \in {"idle", "top"}
\* lib.rs:69, after the poll or after skipping it
AtLenCheck == pc \in {"polled", "skipped"}

\* an error exit that falls through to lib.rs:69-77 and hands out a line
ErrExit_FallThrough(ls) ==
    IF ls = <<>> THEN [ret |-> <<"None">>, lines |-> ls, out |-> <<>>]
    ELSE [ret |-> <<"Some">>, lines |-> Tail(ls), out |-> <<Head(ls)>>]

\* an error exit that throws the queue away
ErrExit_DropQueue(ls) == [ret |-> <<"None">>, lines |-> <<>>, out |-> <<>>]

\* lib.rs:52 and lib.rs:65, return None: what the call returns, the queue it
\* leaves, and the line it hands out (none)
ErrExit(ls) == [ret |-> <<"None">>, lines |-> ls, out |-> None]

\* the history of an error exit
ErrExitHistory ==
    LET x == ErrExit(lines)
    IN  /\ pendingIds' = LastN(pendingIds, Len(x.lines))
        /\ delivered' = IF x.out = None THEN delivered
                        ELSE Append(delivered, x.out[1])
        /\ deliveredIds' = IF x.out = None THEN deliveredIds
                           ELSE Append(deliveredIds, Head(pendingIds))

\* lib.rs:45-54: the elapsed time cannot be computed
next_elapsed_err ==
    /\ AtLoopTop
    /\ elapsed(last_poll) = None
    /\ pc' = "idle"
    /\ ret' = ErrExit(lines).ret
    /\ lines' = ErrExit(lines).lines
    /\ ErrExitHistory
    /\ failed' = TRUE
    /\ wake' = None
    /\ UNCHANGED <<env_events, clear, poll_interval, sleep_interval, last_poll, lastline,
                   locals, clock, kernel, ctor_args, snaphist, readhist>>

\* lib.rs:58-66 with rmesg() failing at lib.rs:84
next_poll_err ==
    /\ AtLoopTop
    /\ elapsed(last_poll) # None
    /\ Due(elapsed(last_poll)[1])
    /\ pc' = "idle"
    /\ ret' = ErrExit(lines).ret
    /\ lines' = ErrExit(lines).lines
    /\ ErrExitHistory
    /\ failed' = TRUE
    /\ wake' = None
    /\ read_mono' = Some(mono)
    /\ read_at' = Some(now)
    /\ last_gap' = IF read_mono = None THEN None ELSE Some(mono - read_mono[1])
    /\ after_fail' = (after_fail \/ failed)
    /\ UNCHANGED <<env_events, clear, poll_interval, sleep_interval, last_poll, lastline,
                   locals, clock, kernel, ctor_args, snaphist>>

\* a poll() that asks for the opposite of the clear flag
rmesg_arg_Negated == ~clear

\* lib.rs:84: the argument poll() gives to rmesg()
rmesg_arg == clear

\* lib.rs:58-60 with poll() succeeding
next_poll_ok ==
    /\ AtLoopTop
    /\ elapsed(last_poll) # None
    /\ Due(elapsed(last_poll)[1])
    /\ LET raw  == rmesg_text
           r    == PollResult(raw, lines, lastline)
           snap == Lines(raw)
           ext  == IsPrefix(prev_snap, snap)
       IN  /\ kstart' = rmesg_kstart(rmesg_arg)
           /\ rawlogs' = Some(raw)
           /\ pre_lastline' = lastline
           /\ lines' = r.lines
           /\ lastline' = r.lastline
           /\ linesadded' = r.linesadded
           /\ pendingIds' = pendingIds \o LastN(KBufIds, r.linesadded)
           /\ polledAll' = polledAll \o SubSeq(r.lines, Len(lines) + 1, Len(r.lines))
           /\ prev_snap' = snap
           /\ chain_ok' = (chain_ok /\ ext
                           /\ (lastline = None \/ Count(snap, lastline[1]) >= 1))
           /\ nodup_ok' = (nodup_ok /\ ext
                           /\ (lastline = None
                               \/ Count(SubSeq(snap, Len(prev_snap) + 1, Len(snap)),
                                        lastline[1]) = 0))
           /\ unique_ok' = (unique_ok /\ ext
                            /\ (lastline = None \/ Count(snap, lastline[1]) = 1))
    /\ pc' = "polled"
    /\ wake' = None
    /\ read_mono' = Some(mono)
    /\ read_at' = Some(now)
    /\ last_gap' = IF read_mono = None THEN None ELSE Some(mono - read_mono[1])
    /\ after_fail' = (after_fail \/ failed)
    /\ UNCHANGED <<env_events, clear, poll_interval, sleep_interval, last_poll, ret, clock, klog,
                   ctor_args, delivered, deliveredIds, failed>>

\* lib.rs:58 false: no poll in this cycle
next_poll_skip ==
    /\ AtLoopTop
    /\ elapsed(last_poll) # None
    /\ ~Due(elapsed(last_poll)[1])
    /\ pc' = "skipped"
    /\ wake' = None
    /\ UNCHANGED <<env_events, iter, ret, locals, clock, kernel, ctor_args, pendingIds, delivered,
                   deliveredIds, snaphist, readhist, failed>>

\* an empty queue taken for the end of the stream
EmptyQueueStep_EndOfStream == [pc |-> "idle", ret |-> <<"None">>, sleep |-> 0]

\* a sleep of poll_interval, without the margin
EmptyQueueStep_ShortSleep == [pc |-> "top", ret |-> ret, sleep |-> poll_interval]

\* lib.rs:69-75 with nothing queued: sleep(self.sleep_interval) and continue;
\* the call has not returned
EmptyQueueStep == [pc |-> "top", ret |-> ret, sleep |-> sleep_interval]

\* lib.rs:69-75: nothing queued, sleep and loop
next_sleep ==
    /\ AtLenCheck
    /\ Len(lines) = 0
    /\ mono + EmptyQueueStep.sleep <= MaxTime
    /\ mono' = mono + EmptyQueueStep.sleep
    /\ now' = now + EmptyQueueStep.sleep
    /\ pc' = EmptyQueueStep.pc
    /\ ret' = EmptyQueueStep.ret
    /\ wake' = IF EmptyQueueStep.pc = "top" THEN Some(now') ELSE None
    /\ rawlogs' = None
    /\ linesadded' = 0
    /\ pre_lastline' = None
    /\ UNCHANGED <<env_events, iter, kernel, ctor_args, pendingIds, delivered,
                   deliveredIds, snaphist, readhist, failed>>

\* lib.rs:77: hand out the first queued line
next_return ==
    /\ AtLenCheck
    /\ Len(lines) # 0
    /\ lines' = Remove0(lines).rest
    /\ ret' = <<"Some">>
    /\ delivered' = Append(delivered, Remove0(lines).value)
    /\ pendingIds' = Remove0(pendingIds).rest
    /\ deliveredIds' = Append(deliveredIds, Remove0(pendingIds).value)
    /\ after_fail' = (after_fail \/ failed)
    /\ pc' = "idle"
    /\ rawlogs' = None
    /\ linesadded' = 0
    /\ pre_lastline' = None
    /\ UNCHANGED <<env_events, clear, poll_interval, sleep_interval, last_poll, lastline,
                   wake, clock, kernel, ctor_args, snaphist, read_mono, read_at,
                   last_gap, failed>>

----------------------------------------------------------------------------
(* Environment: the kernel and the clock act between the cycles *)

EnvTurn == pc \in {"idle", "top"} /\ env_events < MaxEnv

\* the kernel logs a line
KAppend(t) ==
    /\ EnvTurn
    /\ klog' = Append(klog, t)
    /\ env_events' = env_events + 1
    /\ UNCHANGED <<iter, pc, ret, locals, wake, clock, kstart, ctor_args, pendingIds,
                   delivered, deliveredIds, snaphist, readhist, failed>>

\* the ring buffer wraps: its oldest line is overwritten
KWrap ==
    /\ EnvTurn
    /\ kstart <= Len(klog)
    /\ kstart' = kstart + 1
    /\ env_events' = env_events + 1
    /\ UNCHANGED <<iter, pc, ret, locals, wake, clock, klog, ctor_args, pendingIds,
                   delivered, deliveredIds, snaphist, readhist, failed>>

\* time passes
Tick ==
    /\ EnvTurn
    /\ mono < MaxTime
    /\ mono' = mono + 1
    /\ now' = now + 1
    /\ env_events' = env_events + 1
    /\ UNCHANGED <<iter, pc, ret, locals, wake, kernel, ctor_args, pendingIds, delivered,
                   deliveredIds, snaphist, readhist, failed>>

\* the system clock is set back
ClockBack(t) ==
    /\ EnvTurn \/ (pc = "new" /\ env_events < MaxEnv)
    /\ t < now
    /\ now' = t
    /\ env_events' = env_events + 1
    /\ UNCHANGED <<iter, pc, ret, locals, wake, mono, kernel, ctor_args, pendingIds,
                   delivered, deliveredIds, snaphist, readhist, failed>>

----------------------------------------------------------------------------
Next ==
    \/ \E c \in BOOLEAN, p \in 0..DurationMax : rmesg_lines_iter(c, p)
    \/ next_elapsed_err
    \/ next_poll_err
    \/ next_poll_ok
    \/ next_poll_skip
    \/ next_sleep
    \/ next_return
    \/ \E t \in LineTexts : KAppend(t)
    \/ KWrap
    \/ Tick
    \/ \E t \in TimeMin..(now - 1) : ClockBack(t)

Spec == Init /\ [][Next]_vars

\* the caller keeps pulling and the thread keeps running: a cycle of next()
\* that can be taken is taken
Pull ==
    \/ next_elapsed_err
    \/ next_poll_err
    \/ next_poll_ok
    \/ next_poll_skip
    \/ next_sleep
    \/ next_return

\* the runs checked for progress: LiveEnv events of the environment
LiveInit == InitWith(MaxEnv - LiveEnv)

LiveSpec == LiveInit /\ [][Next]_vars /\ WF_vars(Pull)


----------------------------------------------------------------------------
(* Properties *)

\* the text of a string literal's characters, for the spec's scenarios
T_abc == <<"a", "\n", "b", "\n", "c">>
T_abcde == <<"a", "\n", "b", "\n", "c", "\n", "d", "\n", "e">>
T_xyz == <<"x", "\n", "y", "\n", "z">>

\* the state right after a successful poll(): its snapshot's lines, the
\* lines it queued, and the last position of the old anchor in the snapshot
JustPolled == pc = "polled"
Snap == Lines(rawlogs[1])
Delta == LastN(lines, linesadded)
AnchorHits == IF pre_lastline = None THEN {}
              ELSE {i \in 1..Len(Snap) : Snap[i] = pre_lastline[1]}
LastHit == CHOOSE i \in AnchorHits : \A j \in AnchorHits : j <= i

NoRepeat(s) == \A i, j \in 1..Len(s) : i # j => s[i] # s[j]
Range(s) == {s[i] : i \in 1..Len(s)}

\* C1 as stated: whenever every snapshot extended the one before it and still
\* held the anchor, the polls queued, in order and without gaps, exactly the
\* lines appended to the snapshots, also when an appended line is textually
\* equal to the anchor.
C1_NoLossAnyAppend == chain_ok => polledAll = prev_snap

\* C1 amended: the same, for sessions in which no appended line is textually
\* equal to the anchor current at the poll that first sees it.
C1_NoLoss == (chain_ok /\ nodup_ok) => polledAll = prev_snap

\* C1 witness: a second poll of an appended-to snapshot queues new lines
C1_Witness ==
    /\ JustPolled /\ chain_ok /\ nodup_ok
    /\ linesadded >= 1 /\ Len(polledAll) > linesadded /\ pre_lastline # None

\* C2: while every polled snapshot is the previous one with lines appended
\* and holds the current anchor exactly once, no buffer line is returned by
\* next() twice.
C2_NoDuplication == unique_ok => NoRepeat(deliveredIds)

\* C2 witness: two lines were returned and a later poll queued more
C2_Witness ==
    /\ JustPolled /\ unique_ok /\ Len(deliveredIds) >= 2
    /\ pre_lastline # None /\ linesadded >= 1

\* C3 as stated: any two consecutive invocations of the snapshot source are
\* at least poll_interval of real time apart (checked on the sessions in
\* which no pull has failed).
C3_RateLimit == (~failed /\ last_gap # None) => last_gap[1] >= poll_interval

\* C4: after a poll() that queued k > 0 lines, lastline is the last of them,
\* which is the last element of the queue; after one that queued none,
\* lastline is what it was before, absent included.
C4_AnchorUpdate ==
    JustPolled =>
        /\ linesadded <= Len(lines)
        /\ linesadded > 0 =>
              /\ lastline = Some(Delta[linesadded])
              /\ lastline = Some(lines[Len(lines)])
              /\ lastline = Some(polledAll[Len(polledAll)])
        /\ linesadded = 0 => lastline = pre_lastline

\* C4 witness: a poll replaced a present anchor by a different line
C4_Witness ==
    /\ JustPolled /\ linesadded > 1
    /\ pre_lastline # None /\ lastline # pre_lastline

\* Scenario B: anchor "c", snapshot x,y,z
ScenarioB ==
    LET r == PollResult(T_xyz, <<>>, Some(<<"c">>))
    IN  r = [lines |-> << <<"x">>, <<"y">>, <<"z">> >>, linesadded |-> 3,
             lastline |-> Some(<<"z">>)]

\* C5: when lastline is absent, or no line of the snapshot is textually equal
\* to it, poll() queues every line of the snapshot in the original order and
\* moves the anchor to the snapshot's last line (Scenario B).
C5_MissingAnchorFullSnapshot ==
    /\ ScenarioB
    /\ (JustPolled /\ AnchorHits = {}) =>
          /\ linesadded = Len(Snap)
          /\ linesadded <= Len(lines)
          /\ Delta = Snap
          /\ Snap # <<>> => lastline = Some(Snap[Len(Snap)])

\* C5 witness: an anchor that the snapshot no longer holds, and a snapshot
\* of two lines queued whole
C5_Witness ==
    /\ JustPolled /\ pre_lastline # None /\ AnchorHits = {}
    /\ Len(Snap) >= 2 /\ linesadded = Len(Snap)

\* C6 as stated: once a pull has returned end-of-stream, no later next()
\* invokes the snapshot source or returns a line.
C6_FailureTerminal == ~after_fail

\* C7: construction fails, with UnableToAddDurationToSystemTime and without
\* an iterator, exactly when poll_interval + 200ms overflows or
\* now - (poll_interval + 200ms) is not representable; otherwise the new
\* iterator has sleep_interval = poll_interval + 200ms,
\* last_poll = now - sleep_interval, an empty queue and no anchor.
C7_Construction ==
    ctor_args # <<>> =>
        LET c == ctor_args[1]
            p == ctor_args[2]
            t == ctor_args[3]
            fails == p + Margin > DurationMax \/ t - (p + Margin) < TimeMin
        IN  /\ fails <=> pc = "noiter"
            /\ fails => ret = <<"Err", "UnableToAddDurationToSystemTime">>
            /\ (ret = <<"Ok">> /\ read_mono = None) =>
                  /\ ~fails
                  /\ clear = c
                  /\ poll_interval = p
                  /\ sleep_interval = p + Margin
                  /\ last_poll = t - sleep_interval
                  /\ lines = <<>>
                  /\ lastline = None

\* C7 witness: the sum is representable and the subtraction is not
C7_Witness ==
    /\ pc = "noiter"
    /\ ctor_args[2] + Margin <= DurationMax
    /\ ctor_args[3] - (ctor_args[2] + Margin) < TimeMin

\* C8: the lines next() returned, followed by the queue, are the
\* concatenation in poll order of what the polls queued; no returned buffer
\* line is still queued.
C8_Fifo ==
    /\ delivered \o lines = polledAll
    /\ Len(pendingIds) = Len(lines)
    /\ Range(deliveredIds) \cap Range(pendingIds) = {}

\* C8 witness: after a line was returned, a poll queued lines behind one
\* still waiting
C8_Witness ==
    /\ JustPolled /\ Len(delivered) >= 1
    /\ linesadded >= 1 /\ Len(lines) > linesadded

\* Scenario A: no anchor and a,b,c; then anchor "c" and a,b,c,d,e
ScenarioA ==
    LET r1 == PollResult(T_abc, <<>>, None)
        r2 == PollResult(T_abcde, <<>>, r1.lastline)
    IN  /\ r1 = [lines |-> << <<"a">>, <<"b">>, <<"c">> >>, linesadded |-> 3,
                 lastline |-> Some(<<"c">>)]
        /\ r2 = [lines |-> << <<"d">>, <<"e">> >>, linesadded |-> 2,
                 lastline |-> Some(<<"e">>)]

\* C9: when the anchor is present and occurs in the snapshot, poll() queues
\* exactly the lines strictly after the last line textually equal to the
\* anchor, in the original order (Scenario A).
C9_DeltaAfterLastOccurrence ==
    /\ ScenarioA
    /\ (JustPolled /\ AnchorHits # {}) =>
          /\ linesadded = Len(Snap) - LastHit
          /\ linesadded <= Len(lines)
          /\ Delta = SubSeq(Snap, LastHit + 1, Len(Snap))

\* C9 witness: the anchor occurs twice in the snapshot, with a line after it
C9_Witness ==
    /\ JustPolled /\ Cardinality(AnchorHits) >= 2 /\ linesadded >= 1

\* C10 as stated: after at least one invocation of the snapshot source,
\* last_poll is the time of the most recent invocation.
C10_LastPollTracksRead == read_at # None => last_poll = read_at[1]


----------------------------------------------------------------------------
(* Properties of single steps *)

\* a step of the iterator, not of the kernel or the clock
IterStep == env_events' = env_events
\* the cycle this step runs fails: the elapsed time cannot be computed, or a
\* poll is due and rmesg() returns no snapshot
FailingCycle ==
    /\ AtLoopTop /\ IterStep
    /\ \/ elapsed(last_poll) = None
       \/ Due(elapsed(last_poll)[1]) /\ rawlogs' = None
\* this step invokes the snapshot source
ReadStep == AtLoopTop /\ IterStep /\ pc' \in {"polled", "idle"}
            /\ read_mono' = Some(mono) /\ read_at' = Some(now)
\* the elapsed-time check of lib.rs:45-58 passes in this state
CheckPasses == elapsed(last_poll) # None /\ Due(elapsed(last_poll)[1])

\* C11: a cycle that fails returns end-of-stream in that same pull, without
\* sleeping and without handing out a line, also when lines are queued.
C11_FailingPullReturnsNone ==
    [][FailingCycle =>
          /\ pc' = "idle" /\ ret' = <<"None">>
          /\ mono' = mono /\ now' = now
          /\ delivered' = delivered /\ deliveredIds' = deliveredIds]_vars

\* C11 witness: a pull has failed with a line queued
C11_Witness == pc = "idle" /\ ret = <<"None">> /\ failed /\ Len(lines) >= 1

\* the loop repeats only through the sleep branch, taken only with an empty
\* queue, and the sleep lasts sleep_interval, which exceeds poll_interval
C12_OnlySleepRepeats ==
    /\ (pc # "top" /\ pc' = "top") =>
          /\ AtLenCheck /\ Len(lines) = 0
          /\ mono' = mono + sleep_interval /\ now' = now + sleep_interval
          /\ sleep_interval > poll_interval
    /\ (AtLenCheck /\ Len(lines) = 0) => pc' = "top"

\* C12 as stated: the loop repeats only through a sleep of sleep_interval,
\* and the check right after a sleep always passes, so that this cycle
\* attempts a read.
C12_CheckAfterSleepAlwaysPasses ==
    [][/\ C12_OnlySleepRepeats
       /\ (pc = "top" /\ IterStep) => (CheckPasses /\ ReadStep)]_vars

\* C12 amended: the same, the check passing whenever the system clock has not
\* been set back during the sleep.
C12_CheckAfterSleepPasses ==
    [][/\ C12_OnlySleepRepeats
       /\ (pc = "top" /\ IterStep /\ now >= wake[1]) =>
             (CheckPasses /\ ReadStep)]_vars

\* C12 witness: a pull woke from its sleep with the clock not set back
C12_Witness ==
    /\ pc = "top" /\ wake # None /\ now >= wake[1]
    /\ read_mono # None /\ poll_interval >= 1

\* Scenario C: anchor "c", snapshot a,b,c, a line "q" queued
ScenarioC ==
    PollResult(T_abc, << <<"q">> >>, Some(<<"c">>))
        = [lines |-> << <<"q">> >>, linesadded |-> 0, lastline |-> Some(<<"c">>)]

\* C13: a poll() of an empty snapshot, or of one whose last line is textually
\* equal to the anchor, reports 0 lines and leaves the queue and the anchor
\* as they were (Scenario C).
C13_ZeroDeltaChangesNothing ==
    [][/\ ScenarioC
       /\ (AtLoopTop /\ pc' = "polled") =>
             LET snap == Lines(rawlogs'[1])
             IN  (\/ snap = <<>>
                  \/ lastline # None /\ snap[Len(snap)] = lastline[1]) =>
                     /\ linesadded' = 0
                     /\ lines' = lines
                     /\ lastline' = lastline]_vars

\* C13 witness: a poll of an unchanged snapshot, with a line still queued
C13_Witness ==
    /\ JustPolled /\ linesadded = 0 /\ pre_lastline # None
    /\ Snap # <<>> /\ Len(lines) >= 1

\* C14 as stated: the first cycle of the first next() of a new iterator
\* finds a poll due and invokes the snapshot source before any sleep.
C14_FirstReadAlwaysImmediate ==
    [][(pc = "idle" /\ ret = <<"Ok">> /\ IterStep) =>
          (CheckPasses /\ ReadStep /\ mono' = mono)]_vars

\* C14 amended: the same, whenever the system clock has not been set back
\* since the iterator was constructed.
C14_FirstReadImmediate ==
    [][(pc = "idle" /\ ret = <<"Ok">> /\ IterStep /\ now - mono = ctor_args[3]) =>
          (CheckPasses /\ ReadStep /\ mono' = mono)]_vars

\* C14 witness: the first poll was made with no sleep before it, for a
\* poll_interval above zero
C14_Witness ==
    /\ JustPolled /\ ret = <<"Ok">> /\ last_gap = None
    /\ mono = 0 /\ now = ctor_args[3] /\ poll_interval >= 1

\* a blocked pull: the call found the queue empty and slept; the buffer now
\* holds lines after the anchor, first of them t; the system clock has not
\* been set back since the sleep ended, and the kernel and the clock stay as
\* they are
BlockedWithNews(t) ==
    /\ pc = "top" /\ lines = <<>> /\ ~failed
    /\ NewLines(rmesg_text, lastline) # <<>>
    /\ NewLines(rmesg_text, lastline)[1] = t
    /\ env_events = MaxEnv
    /\ wake # None /\ now >= wake[1]
\* next() has returned the line t
Returned(t) ==
    /\ pc = "idle" /\ ret = <<"Some">>
    /\ delivered # <<>> /\ delivered[Len(delivered)] = t

\* C15: while no pull fails, a pull blocked on an empty queue returns the
\* first line of the delta once the source has one, and every queued line is
\* returned.
C15_BlockedPullDelivers ==
    /\ \A t \in LineTexts : BlockedWithNews(t) ~> (Returned(t) \/ failed)
    /\ \A i \in 1..LiveEnv :
          (i \in Range(pendingIds)) ~> (i \in Range(deliveredIds) \/ failed)

\* C15 witness: with a poll_interval above zero, a pull whose first cycle
\* was not due (the clock had been set back) slept on the empty queue, then
\* made the iterator's first read and returned the line it found
C15_Witness ==
    /\ pc = "idle" /\ ret = <<"Some">> /\ ~failed /\ poll_interval >= 1
    /\ Len(delivered) = 1 /\ last_gap = None
    /\ read_mono = Some(mono) /\ read_at = Some(now) /\ mono = sleep_interval
    /\ now - sleep_interval >= last_poll
    /\ now - sleep_interval - last_poll < poll_interval

\* C16 as stated: whenever lastline is set, it is the line most recently
\* returned by next().
C16_AnchorIsLastDelivered ==
    lastline # None =>
        (delivered # <<>> /\ lastline = Some(delivered[Len(delivered)]))

\* C16 amended: whenever lastline is set, it is the line most recently queued
\* by a poll, returned or not.
C16_AnchorIsLastQueued ==
    lastline # None =>
        (polledAll # <<>> /\ lastline = Some(polledAll[Len(polledAll)]))

\* C16 witness: the anchor differs from the line most recently returned
C16_Witness ==
    /\ lastline # None /\ delivered # <<>> /\ lines # <<>>
    /\ lastline # Some(delivered[Len(delivered)])

\* C17: the clear flag is the constructor's argument for the iterator's
\* life, and every read of the snapshot source is made with it: a clearing
\* read leaves the kernel buffer empty, any other leaves it alone.
C17_ClearFixedAndForwarded ==
    [][/\ pc' \notin {"new", "noiter"} => clear' = ctor_args'[1]
       /\ (AtLoopTop /\ pc' = "polled") =>
             kstart' = IF ctor_args[1] THEN Len(klog) + 1 ELSE kstart]_vars

\* C17 witness: an iterator built with clear = false has read a buffer that
\* holds a line, after a line was returned
C17_Witness ==
    /\ JustPolled /\ ~clear /\ ctor_args[1] = FALSE
    /\ kstart <= Len(klog) /\ Len(delivered) >= 1

\* C18: a non-empty queue ends with lastline; with an empty queue a set
\* lastline is the line most recently returned; lastline is absent only
\* while no poll has queued a line.
C18_AnchorAndQueue ==
    /\ lines # <<>> => lastline = Some(lines[Len(lines)])
    /\ (lines = <<>> /\ lastline # None) =>
          (delivered # <<>> /\ lastline = Some(delivered[Len(delivered)]))
    /\ lastline = None => polledAll = <<>>

\* C18 witness: the queue was drained after two lines
C18_Witness == lines = <<>> /\ lastline # None /\ Len(delivered) >= 2

\* C19: a cycle that fails leaves every field of the iterator as it was.
C19_FailedPullLosesNothing ==
    [][FailingCycle =>
          UNCHANGED <<lines, lastline, last_poll, clear, poll_interval,
                      sleep_interval, pendingIds>>]_vars

\* C19 witness: a pull has failed with two lines queued
C19_Witness == ret = <<"None">> /\ failed /\ Len(lines) >= 2 /\ lastline # None

\* C20: next() returns end-of-stream only from a cycle that fails, never
\* from an empty queue or an empty poll, and otherwise returns a line.
C20_NoneMeansError ==
    [][(IterStep /\ pc \notin {"new", "noiter"}) =>
          /\ (pc' = "idle") =>
                \/ ret' = <<"None">> /\ FailingCycle
                \/ ret' = <<"Some">> /\ AtLenCheck /\ Len(lines) >= 1
                   /\ Len(delivered') = Len(delivered) + 1
          /\ (pc' # "idle") => ret' = ret
          /\ (AtLenCheck /\ Len(lines) = 0) => pc' = "top"]_vars

\* C20 witness: a pull polled, found nothing new and nothing queued, slept,
\* and has not returned
C20_Witness ==
    /\ pc = "top" /\ ~failed /\ ret = <<"Some">>
    /\ lines = <<>> /\ lastline # None /\ read_mono # None

====
